---- MODULE Spec2Model ----
(***************************************************************************)
(* State-machine model of src/main.py, the Streamlit DC-generator          *)
(* simulator.  One action is one run of the script: Streamlit reruns the   *)
(* whole script whenever a widget changes or a button is clicked, and      *)
(* st.session_state is what survives from one run to the next.             *)
(*                                                                         *)
(* Real numbers are kept as integers in fixed units, so that the           *)
(* arithmetic of the script is exact arithmetic of the model:              *)
(*   time, dt            centiseconds (0.01 s)                             *)
(*   speed, omega        0.1 rad/s    (the slider's step)                  *)
(*   angle               milliradians (omega * dt is in mrad)              *)
(*   coil_width/height   centimetres  (the sliders' step), area in cm^2    *)
(*   B0, B_eff           0.05 T       (the slider's step)                  *)
(*   cos                 thousandths                                       *)
(*   flux                B * area * cos in the units above                 *)
(*   emf                 flux units per second                             *)
(*   grid coordinates    millimetres                                       *)
(* IEEE rounding of the Python floats is not modelled.                     *)
(***************************************************************************)
EXTENDS Integers, Sequences, FiniteSets, TLC

VARIABLES
    \* widget values (they persist from one run to the next)
    speed, direction, coil_width, coil_height, B0, angle_slider,
    \* st.session_state
    angle, time, t_series, phi_series, emf_series,
    \* history variables (observers; the script does not keep them)
    nsteps,   \* single_step calls since the session started
    turned,   \* sum of omega * dt over all single_step calls
    moved,    \* the user has moved the angle slider
    runs,     \* script runs after the first one
    last      \* what triggered the last run

widgets == <<speed, direction, coil_width, coil_height, B0, angle_slider>>
session == <<angle, time, t_series, phi_series, emf_series>>
history == <<nsteps, turned, moved, runs, last>>
vars == <<widgets, session, history>>

\* Number of script runs explored after the first one.
MaxRuns == 3

\* Values the user picks on the widgets (each inside its slider's range).
Speeds == {20, 100}
Directions == {"CCW", "CW"}
CoilWidths == {10, 30}
CoilHeights == {8, 2}
FieldStrengths == {16, 40}
AngleSliders == {0, 90, 200}

\* x is not None: st.slider returns an int, never None.
IsNotNone(x) == x \in Int

\* dt = 0.05 s
dt == 5

\* frames = 200
frames == 200

Abs(x) == IF x < 0 THEN -x ELSE x

\* Newton's iteration from a guess g >= sqrt(n): the floor of sqrt(n).
RECURSIVE Newton(_, _)
Newton(n, g) ==
    LET y == (g + n \div g) \div 2
    IN IF y >= g THEN g ELSE Newton(n, y)

\* np.sqrt on a non-negative integer: exact on perfect squares, else floor.
np_sqrt(n) == IF n = 0 THEN 0 ELSE Newton(n, 46340)

RECURSIVE Sum(_)
Sum(s) == IF s = <<>> THEN 0 ELSE Head(s) + Sum(Tail(s))

\* np.mean of a non-empty array
np_mean(s) == Sum(s) \div Len(s)

\* np.deg2rad: degrees to milliradians, rounded (pi = 3.1416)
np_deg2rad(d) == (d * 31416 + 900) \div 1800

\* cos on [0, pi/2] (x in mrad), by its Taylor polynomial, in thousandths
CosQ(x) ==
    LET x2 == (x * x) \div 1000
        x4 == (x2 * x2) \div 1000
        x6 == (x4 * x2) \div 1000
        x8 == (x6 * x2) \div 1000
    IN 1000 - (x2 \div 2) + (x4 \div 24) - (x6 \div 720) + (x8 \div 40320)

\* np.cos of an angle in mrad (any sign, any size), in thousandths
np_cos(theta) ==
    LET t == theta % 6283
        u == IF t > 3142 THEN 6283 - t ELSE t
    IN IF u > 1571 THEN -CosQ(3142 - u) ELSE CosQ(u)

\* omega = speed if direction == CCW else -speed
omega(w) == IF w.direction = "CCW" THEN w.speed ELSE -w.speed

\* area = coil_width * coil_height
area(w) == w.coil_width * w.coil_height

\* r2**1.5 in cm^3, for r2 in mm^2
pow15(r2) == (r2 * np_sqrt(r2)) \div 1000

\* Bx = m * rx / r2**1.5, By = m * ry / r2**1.5, in 0.001 m^-2
Falloff(rx, ry, r2, m) ==
    << (m * rx * 1000000) \div pow15(r2), (m * ry * 1000000) \div pow15(r2) >>

\* One point of the field of one pole: <<Bx, By>>.  The 1e-6 m^2 added to
\* r2 is 1 mm^2.  (r5 is computed by the code and never used.)
dipole(px, py, X, Y, m) ==
    LET rx == X - px
        ry == Y - py
    IN Falloff(rx, ry, rx * rx + ry * ry + 1, m)

\* Bx = Bx1 + Bx2 + Bx_uniform, By = By1 + By2 + By_uniform (both uniform
\* terms are zero)
SumField(d1, d2) == << d1[1] + d2[1] + 0, d1[2] + d2[2] + 0 >>

\* The unscaled field of the two poles at point i of the grid.
RawField(X, Y, i) ==
    SumField(dipole(-300, 0, X[i], Y[i], 1), dipole(300, 0, X[i], Y[i], -1))

\* An array with its elements computed (a function is evaluated on demand).
np_array(f) == <<>> \o f

\* np.sqrt(Bx**2 + By**2) of one vector
Magnitude(v) == np_sqrt(v[1] * v[1] + v[2] * v[2])

\* Mutant: the mean is taken over the components, not over the magnitudes.
Rescale_compmean(raw, B) ==
    LET comp == np_array([i \in 1..Len(raw) |-> Abs(raw[i][1])])
                    \o np_array([i \in 1..Len(raw) |-> Abs(raw[i][2])])
        mag_mean == np_mean(comp)
    IN IF mag_mean > 0
       THEN << np_array([i \in 1..Len(raw) |-> (raw[i][1] * B) \div mag_mean]),
               np_array([i \in 1..Len(raw) |-> (raw[i][2] * B) \div mag_mean]) >>
       ELSE << np_array([i \in 1..Len(raw) |-> raw[i][1]]),
               np_array([i \in 1..Len(raw) |-> raw[i][2]]) >>

\* The scaling of the field raw (the <<Bx, By>> of every grid point) to the
\* mean magnitude B: <<Bx, By>> as two arrays.  Bx * (B0 / mag_mean) is
\* computed as (Bx * B0) / mag_mean, which is the same real number.
Rescale(raw, B) ==
    LET mag == np_array([i \in 1..Len(raw) |-> Magnitude(raw[i])])
        mag_mean == np_mean(mag)
    IN IF mag_mean > 0
       THEN << np_array([i \in 1..Len(raw) |-> (raw[i][1] * B) \div mag_mean]),
               np_array([i \in 1..Len(raw) |-> (raw[i][2] * B) \div mag_mean]) >>
       ELSE << np_array([i \in 1..Len(raw) |-> raw[i][1]]),
               np_array([i \in 1..Len(raw) |-> raw[i][2]]) >>

\* magnetic_field_grid(X, Y) over the grid points X[i], Y[i]; B is the
\* global B0 the function reads.
magnetic_field_grid(X, Y, B) ==
    Rescale(np_array([i \in 1..Len(X) |-> RawField(X, Y, i)]), B)

\* flux_through_coil: B_field_mag * area * cos(theta)
flux_through_coil(B_field_mag, theta, A) == B_field_mag * A * np_cos(theta)

\* Mutant: the difference is taken against the first sample, not the previous.
induced_emf_first(phi, d) ==
    IF Len(phi) < 2 THEN 0
    ELSE -((phi[Len(phi)] - phi[1]) * 100) \div d

\* induced_emf: -(phi[-1] - phi[-2]) / dt, 0 with fewer than two samples
induced_emf(phi, d) ==
    IF Len(phi) < 2 THEN 0
    ELSE -((phi[Len(phi)] - phi[Len(phi) - 1]) * 100) \div d

\* Mutant: no rectification.
rectify_none(e) == e

\* emf_rectified = abs(emf_new)
rectify(e) == Abs(e)

\* pts[k] of a Python list (indices from 0)
At(pts, k) == pts[k + 1]

\* The AC series the plotting code recomputes from phi_series.
emf_ac(pts) ==
    [j \in 1..Len(pts) |->
        LET k == j - 1
        IN IF k = 0 THEN 0
           ELSE -((At(pts, k) - At(pts, k - 1)) * 100) \div dt]

\* The widget values and the session state as records.
Widgets ==
    [speed |-> speed, direction |-> direction, coil_width |-> coil_width,
     coil_height |-> coil_height, B0 |-> B0, angle_slider |-> angle_slider]

Session ==
    [angle |-> angle, time |-> time, t_series |-> t_series,
     phi_series |-> phi_series, emf_series |-> emf_series,
     nsteps |-> nsteps, turned |-> turned]

\* np.sqrt(Bx_c[0,0]**2 + By_c[0,0]**2) of the field B = <<Bx_c, By_c>>
CentreMagnitude(B) == Magnitude(<< B[1][1], B[2][1] >>)

\* The effective field at the coil centre: the magnitude of the field that
\* magnetic_field_grid returns for the one-point grid (0, 0).
B_eff(w) == CentreMagnitude(magnetic_field_grid(<<0>>, <<0>>, w.B0))

\* Mutant: the time sample is appended only from the second step on.
single_step_late(s, w) ==
    LET a == s.angle + omega(w) * dt
        t == s.time + dt
        phi == Append(s.phi_series, flux_through_coil(B_eff(w), a, area(w)))
    IN [s EXCEPT !.angle = a, !.time = t, !.phi_series = phi,
                 !.t_series = IF s.nsteps = 0 THEN @ ELSE Append(@, t),
                 !.emf_series = Append(@, rectify(induced_emf(phi, dt))),
                 !.nsteps = @ + 1, !.turned = @ + omega(w) * dt]

\* Mutant: the time sample is appended before the time is advanced.
single_step_stale(s, w) ==
    LET a == s.angle + omega(w) * dt
        t == s.time + dt
        phi == Append(s.phi_series, flux_through_coil(B_eff(w), a, area(w)))
    IN [s EXCEPT !.angle = a, !.time = t, !.phi_series = phi,
                 !.t_series = Append(@, s.time),
                 !.emf_series = Append(@, rectify(induced_emf(phi, dt))),
                 !.nsteps = @ + 1, !.turned = @ + omega(w) * dt]

\* single_step(): the new session state.  nsteps and turned are the
\* history of the calls.
single_step(s, w) ==
    LET a == s.angle + omega(w) * dt
        t == s.time + dt
        phi_new == flux_through_coil(B_eff(w), a, area(w))
        phi == Append(s.phi_series, phi_new)
        ts == Append(s.t_series, t)
        emf_new == induced_emf(phi, dt)
        emf_rectified == rectify(emf_new)
    IN [s EXCEPT !.angle = a, !.time = t, !.phi_series = phi,
                 !.t_series = ts,
                 !.emf_series = Append(@, emf_rectified),
                 !.nsteps = @ + 1, !.turned = @ + omega(w) * dt]

\* n consecutive calls of single_step.  The calls are split in two halves
\* only to keep the evaluation shallow, and the test on h has the first half
\* evaluated before the second starts (its two branches are the same call):
\* the result is that of calling single_step n times in a row.
RECURSIVE Repeat(_, _, _)
Repeat(s, w, n) ==
    IF n <= 0 THEN s
    ELSE IF n = 1 THEN single_step(s, w)
    ELSE LET h == Repeat(s, w, n \div 2)
         IN IF h.time >= s.time THEN Repeat(h, w, n - (n \div 2))
            ELSE Repeat(h, w, n - (n \div 2))

\* Mutant: one frame too many.
PlayLoopExtra(s, w) == Repeat(s, w, frames + 1)

\* for i in range(frames): single_step()  (the drawing changes no state)
PlayLoop(s, w) == Repeat(s, w, frames)

\* Mutant: a run that stops stepping once the elapsed time exceeds the
\* duration of one Play.
ScriptStopAtMax(w, s, play, step) ==
    LET s1 == [s EXCEPT !.angle = np_deg2rad(w.angle_slider)]
    IN IF s.time > frames * dt THEN s1
       ELSE IF step THEN single_step(s1, w)
       ELSE IF play THEN PlayLoop(s1, w)
       ELSE s1

\* Mutant: a run without a button starts the recording afresh.
ScriptRestart(w, s, play, step) ==
    LET s1 == [s EXCEPT !.angle = np_deg2rad(w.angle_slider)]
    IN IF step THEN single_step(s1, w)
       ELSE IF play THEN PlayLoop(s1, w)
       ELSE [s1 EXCEPT !.t_series = <<>>, !.phi_series = <<>>,
                       !.emf_series = <<>>]

\* One run of the script on session state s with widget values w; play and
\* step are what the two buttons return.  "angle" is in the session state
\* from the first run on, so the else branch of that test is the one taken.
Script(w, s, play, step) ==
    LET s1 == IF IsNotNone(w.angle_slider)
              THEN [s EXCEPT !.angle = np_deg2rad(w.angle_slider)]
              ELSE s
        s2 == IF step THEN single_step(s1, w) ELSE s1
        s3 == IF play THEN PlayLoop(s2, w) ELSE s2
    IN s3

\* The state after the first run of the script: the widgets at their
\* defaults, no button pressed.
Init ==
    /\ speed = 20 /\ direction = "CCW"
    /\ coil_width = 10 /\ coil_height = 8
    /\ B0 = 16 /\ angle_slider = 0
    /\ angle = np_deg2rad(0)
    /\ t_series = <<>> /\ phi_series = <<>> /\ emf_series = <<>>
    /\ time = 0
    /\ nsteps = 0 /\ turned = 0 /\ moved = FALSE /\ runs = 0
    /\ last = "first"

\* A rerun with widget values w.
Run(w, play, step, kind) ==
    /\ runs < MaxRuns
    /\ \E r \in {Script(w, Session, play, step)} :
          /\ angle' = r.angle
          /\ time' = r.time
          /\ t_series' = r.t_series
          /\ phi_series' = r.phi_series
          /\ emf_series' = r.emf_series
          /\ nsteps' = r.nsteps
          /\ turned' = r.turned
    /\ speed' = w.speed
    /\ direction' = w.direction
    /\ coil_width' = w.coil_width
    /\ coil_height' = w.coil_height
    /\ B0' = w.B0
    /\ angle_slider' = w.angle_slider
    /\ runs' = runs + 1
    /\ last' = kind

SetSpeed(v) ==
    /\ v # speed
    /\ Run([Widgets EXCEPT !.speed = v], FALSE, FALSE, "rerun")
    /\ moved' = moved

SetDirection(v) ==
    /\ v # direction
    /\ Run([Widgets EXCEPT !.direction = v], FALSE, FALSE, "rerun")
    /\ moved' = moved

SetCoilWidth(v) ==
    /\ v # coil_width
    /\ Run([Widgets EXCEPT !.coil_width = v], FALSE, FALSE, "rerun")
    /\ moved' = moved

SetCoilHeight(v) ==
    /\ v # coil_height
    /\ Run([Widgets EXCEPT !.coil_height = v], FALSE, FALSE, "rerun")
    /\ moved' = moved

SetB0(v) ==
    /\ v # B0
    /\ Run([Widgets EXCEPT !.B0 = v], FALSE, FALSE, "rerun")
    /\ moved' = moved

SetAngleSlider(v) ==
    /\ v # angle_slider
    /\ Run([Widgets EXCEPT !.angle_slider = v], FALSE, FALSE, "rerun")
    /\ moved' = TRUE

ClickStep ==
    /\ Run(Widgets, FALSE, TRUE, "step")
    /\ moved' = moved

ClickPlay ==
    /\ Run(Widgets, TRUE, FALSE, "play")
    /\ moved' = moved

Next ==
    \/ \E v \in Speeds : SetSpeed(v)
    \/ \E v \in Directions : SetDirection(v)
    \/ \E v \in CoilWidths : SetCoilWidth(v)
    \/ \E v \in CoilHeights : SetCoilHeight(v)
    \/ \E v \in FieldStrengths : SetB0(v)
    \/ \E v \in AngleSliders : SetAngleSlider(v)
    \/ ClickStep
    \/ ClickPlay

Spec == Init /\ [][Next]_vars

(***************************************************************************)
(* The claims.                                                             *)
(***************************************************************************)

IsPrefix(a, b) == Len(a) <= Len(b) /\ SubSeq(b, 1, Len(a)) = a

\* The last run was triggered by a button and is the step just taken.
Stepped(kind) == runs' = runs + 1 /\ last' = kind

\* C1: after N calls of single_step in the session the three series have
\* length exactly N and the stored time is N * 0.05 s, whatever the
\* widget changes in between.
C1_LengthsAndTime ==
    /\ Len(t_series) = nsteps
    /\ Len(phi_series) = nsteps
    /\ Len(emf_series) = nsteps
    /\ time = nsteps * 5

C1_Witness ==
    /\ nsteps = 201 /\ moved /\ last = "step"
    /\ Len(emf_series) = 201 /\ time = 1005

\* C2 as stated: t_series[i] = i * 0.05 s for every index i of the list
\* (Python indices, from 0).
C2_Original ==
    \A i \in 0..(Len(t_series) - 1) : At(t_series, i) = i * 5

\* C2 amended: t_series[i] = (i + 1) * 0.05 s for every index i of the list
\* (the first sample is taken after the first advance), and consecutive
\* samples differ by exactly 0.05 s.
C2_TimeSamples ==
    \A i \in 0..(Len(t_series) - 1) :
        /\ At(t_series, i) = (i + 1) * 5
        /\ i > 0 => At(t_series, i) - At(t_series, i - 1) = 5

C2_Witness ==
    /\ Len(t_series) = 201 /\ At(t_series, 0) = 5
    /\ At(t_series, 200) = 1005 /\ last = "step"

\* C3: with the angle slider never moved, the stored angle is the sum of
\* omega * 0.05 s over all the steps taken in the session (it starts at 0).
C3_AngleAccumulates == ~moved => angle = turned

\* C4: a run in which the angle slider was not moved continues from the
\* angle the previous run reached: the angle changes only by the steps of
\* this run.
C4_AnglePersists ==
    [][angle_slider' = angle_slider => angle' = angle + (turned' - turned)]_vars

\* C5 as stated: once the elapsed time exceeds the maximum of 10.0 s no
\* further step is applied: the time and the series stop growing.
C5_Original ==
    [][time > 1000 =>
         /\ time' = time
         /\ t_series' = t_series
         /\ phi_series' = phi_series
         /\ emf_series' = emf_series]_vars

\* C5 amended: no maximum duration is enforced between runs.  One run
\* advances the time by at most 10.0 s (the 200 frames of a Play), and a
\* Step or Play clicked when the elapsed time already exceeds 10.0 s still
\* advances the time and lengthens the series.
C5_NoMaxDuration ==
    [][/\ time' - time <= 1000
       /\ (time > 1000 /\ (Stepped("step") \/ Stepped("play"))) =>
             /\ time' > time
             /\ Len(t_series') > Len(t_series)
             /\ Len(phi_series') > Len(phi_series)
             /\ Len(emf_series') > Len(emf_series)]_vars

C5_Witness == time = 1010 /\ last = "step" /\ Len(t_series) = 202

C7_EmfNonNegative ==
    \A k \in 1..Len(emf_series) : emf_series[k] >= 0

C7_Witness ==
    /\ direction = "CW" /\ last = "play"
    /\ \E k \in 1..Len(emf_series) :
          emf_ac(phi_series)[k] < 0 /\ emf_series[k] > 0
    /\ \E k \in 1..Len(emf_series) :
          emf_ac(phi_series)[k] > 0 /\ emf_series[k] > 0

\* C8: every flux sample a run appends is B0 * A * cos(theta) (one turn),
\* theta being the stored angle after that step's advance, and the
\* effective field of the one-point grid is B0.
C8_FluxClosedForm ==
    [][/\ B_eff(Widgets) = B0
       /\ \A k \in (Len(phi_series) + 1)..Len(phi_series') :
             phi_series'[k] =
                B0' * (coil_width' * coil_height')
                    * np_cos(angle' - (Len(phi_series') - k)
                                        * (IF direction' = "CCW" THEN speed'
                                           ELSE -speed') * 5)]_vars

C8_Witness ==
    /\ last = "play" /\ B0 = 40 /\ coil_width = 30 /\ direction = "CCW"
    /\ Len(phi_series) = 200
    /\ phi_series[200] = 40 * 240 * np_cos(angle)
    /\ phi_series[200] # 0

\* C9: the series are append-only and the time never decreases; a run
\* without a button leaves the time and the three series unchanged.
C9_AppendOnly ==
    [][/\ time' >= time
       /\ IsPrefix(t_series, t_series')
       /\ IsPrefix(phi_series, phi_series')
       /\ IsPrefix(emf_series, emf_series')
       /\ Stepped("rerun") =>
             /\ time' = time
             /\ t_series' = t_series
             /\ phi_series' = phi_series
             /\ emf_series' = emf_series]_vars

C9_Witness ==
    /\ last = "rerun" /\ moved /\ direction = "CW"
    /\ Len(t_series) = 1 /\ time = 5

\* C10: a Play run performs exactly 200 steps (200 samples more in each
\* series, 200 * 0.05 s more on the clock) and a Step run exactly one.
C10_BoundedLoop ==
    [][/\ Stepped("play") =>
             /\ nsteps' = nsteps + 200
             /\ Len(t_series') = Len(t_series) + 200
             /\ Len(phi_series') = Len(phi_series) + 200
             /\ Len(emf_series') = Len(emf_series) + 200
             /\ time' = time + 200 * 5
       /\ Stepped("step") =>
             /\ nsteps' = nsteps + 1
             /\ Len(t_series') = Len(t_series) + 1
             /\ Len(phi_series') = Len(phi_series) + 1
             /\ Len(emf_series') = Len(emf_series) + 1
             /\ time' = time + 5]_vars

C10_Witness == last = "play" /\ nsteps = 401 /\ time = 2005

====
